---- MODULE Spec2Model ----
(***************************************************************************)
(* Model of cse/flags.py: the BaseFlags bitfield type, its two concrete    *)
(* enumerations Language and CountryCode, and the to_google_flags encoder. *)
(*                                                                         *)
(* Python values are modelled as follows.                                  *)
(*   - int: a TLA+ integer (Python ints are unbounded, two's complement    *)
(*     for the bit operators);                                             *)
(*   - str: a flag or attribute NAME is a TLA+ string; a wire string (the  *)
(*     docstrings and what to_google_flags returns) is a sequence of       *)
(*     one-character strings, so that joining, wrapping, splitting and     *)
(*     length are computed character by character;                         *)
(*   - an instance: a record [cls, value];                                 *)
(*   - keyword arguments: the sequence of [name, val] pairs in the order   *)
(*     the dict yields them;                                               *)
(*   - an argument passed by a caller: a tagged record (PyBool, PyInt,     *)
(*     PyClass).                                                           *)
(* The source declares 35 Language flags and 242 CountryCode flags; the    *)
(* model keeps the last MaxLangFlags / MaxCountryFlags entries of a        *)
(* sub-list of those declarations, in source order, and numbers their bits *)
(* from 0 in that order, as the source does (1 << 0, 1 << 1, ...).         *)
(***************************************************************************)
EXTENDS Integers, Sequences, FiniteSets, TLC

\* ------------------------------------------------------------------ bounds
MaxLangFlags == 5
MaxCountryFlags == 4
MaxKw == 2

\* ------------------------------------------------------- class declarations
Classes == {"Language", "CountryCode"}

\* @_flag_property declarations of class Language, in source order.
LanguageDecl ==
  << [name |-> "arabic",              doc |-> <<"l","a","n","g","_","a","r">>],
     [name |-> "german",              doc |-> <<"l","a","n","g","_","d","e">>],
     [name |-> "greek",               doc |-> <<"l","a","n","g","_","e","l">>],
     [name |-> "english",             doc |-> <<"l","a","n","g","_","e","n">>],
     [name |-> "french",              doc |-> <<"l","a","n","g","_","f","r">>],
     [name |-> "chinese_simplified",  doc |-> <<"l","a","n","g","_","z","h","-","C","N">>],
     [name |-> "chinese_traditional", doc |-> <<"l","a","n","g","_","z","h","-","T","W">>] >>

\* @_flag_property declarations of class CountryCode, in source order.
CountryCodeDecl ==
  << [name |-> "afghanistan",          doc |-> <<"c","o","u","n","t","r","y","A","F">>],
     [name |-> "albania",              doc |-> <<"c","o","u","n","t","r","y","A","L">>],
     [name |-> "france",               doc |-> <<"c","o","u","n","t","r","y","F","R">>],
     [name |-> "_metropolitan_france", doc |-> <<"c","o","u","n","t","r","y","F","X">>],
     [name |-> "united_states",        doc |-> <<"c","o","u","n","t","r","y","U","S">>],
     [name |-> "zimbabwe",             doc |-> <<"c","o","u","n","t","r","y","Z","W">>] >>

Min(a, b) == IF a < b THEN a ELSE b

LastN(s, n) == SubSeq(s, Len(s) - Min(n, Len(s)) + 1, Len(s))

\* The flags a class body declares, in declaration order; the k-th one
\* returns 1 << (k-1).
ClassBody ==
  [c \in Classes |->
     IF c = "Language" THEN LastN(LanguageDecl, MaxLangFlags)
     ELSE LastN(CountryCodeDecl, MaxCountryFlags)]

Declared(cls) == ClassBody[cls]

FlagNameSets ==
  [c \in Classes |-> { ClassBody[c][k].name : k \in 1..Len(ClassBody[c]) }]

FlagNames(cls) == FlagNameSets[cls]

\* Each flag of each class as [bit, doc]: what its function returns and its
\* docstring.
FlagTable ==
  [c \in Classes |->
     [n \in FlagNameSets[c] |->
        LET k == CHOOSE j \in 1..Len(ClassBody[c]) : ClassBody[c][j].name = n
        IN [bit |-> 2 ^ (k - 1), doc |-> ClassBody[c][k].doc]]]

\* self._original_func(None): the bit a flag property returns.
original_func(cls, name) == FlagTable[cls][name].bit

\* getattr(cls, name).__doc__: the wire token of a flag.
doc(cls, name) == FlagTable[cls][name].doc

\* Members of BaseFlags that every subclass inherits and that are not flags.
MethodNames == {"to_google_flags", "flag_values", "from_flags"}
PropertyNames == {"_all_flags_enabled", "__dict__"}

\* Python's ordering of str, restricted to the names of the model.
SortedNames ==
  << "__class__", "__dict__", "_all_flags_enabled", "_metropolitan_france",
     "afghanistan", "albania", "arabic", "chinese_simplified",
     "chinese_traditional", "english", "flag_values", "france", "french",
     "from_flags", "german", "greek", "klingon", "to_google_flags",
     "united_states", "value", "zimbabwe" >>

NameRank(name) == CHOOSE k \in 1..Len(SortedNames) : SortedNames[k] = name

\* What kind of attribute `name` is on an instance of cls (how
\* hasattr/getattr/object.__setattr__ resolve it).
MemberKind(cls, name) ==
  IF name \in FlagNames(cls) THEN "flag"
  ELSE IF name = "value" THEN "slot"
  ELSE IF name \in MethodNames THEN "classattr"
  ELSE IF name \in PropertyNames THEN "property"
  ELSE IF name = "__class__" THEN "class"
  ELSE "missing"

\* inspect.getmembers(cls): the (name, kind) pairs of dir(cls), sorted by name.
getmembers(cls) ==
  LET names == { n \in FlagNames(cls) \cup MethodNames \cup PropertyNames \cup {"__class__"} : TRUE }
      sorted == SelectSeq(SortedNames, LAMBDA n : n \in names)
  IN [k \in 1..Len(sorted) |-> <<sorted[k], MemberKind(cls, sorted[k])>>]

\* __init_subclass__ registering the flags in the order the class body
\* declares them instead of the order getmembers returns them.
init_subclass_declared(cls, existing) ==
  existing \o [k \in 1..Len(Declared(cls)) |-> Declared(cls)[k].name]

\* BaseFlags.__init_subclass__: append to the class's flag_values list the
\* name of every member that is a _flag_property, in getmembers order.
init_subclass(cls, existing) ==
  LET ms == SelectSeq(getmembers(cls), LAMBDA m : m[2] = "flag")
  IN existing \o [k \in 1..Len(ms) |-> ms[k][1]]

\* ------------------------------------------------------------ Python values
PyBool(b) == [kind |-> "bool", b |-> b, n |-> 0, c |-> ""]
PyInt(n) == [kind |-> "int", b |-> FALSE, n |-> n, c |-> ""]
PyClass(c) == [kind |-> "class", b |-> FALSE, n |-> 0, c |-> c]

\* The int a Python value is when stored in an int field (True is 1).
IntOf(v) == IF v.kind = "bool" THEN (IF v.b THEN 1 ELSE 0) ELSE v.n

\* bool(v)
Truthy(v) ==
  IF v.kind = "bool" THEN v.b
  ELSE IF v.kind = "int" THEN v.n # 0
  ELSE TRUE

\* a & b for a Python int a and b >= 0 (two's complement, unbounded).
RECURSIVE BitAnd(_, _)
BitAnd(a, b) ==
  IF b = 0 THEN 0
  ELSE (a % 2) * (b % 2) + 2 * BitAnd(a \div 2, b \div 2)

Abs(v) == IF v < 0 THEN -v ELSE v

RECURSIVE PopCount(_)
PopCount(n) == IF n = 0 THEN 0 ELSE (n % 2) + PopCount(n \div 2)

\* bin(v).count('1'): bin() writes a sign and the magnitude's binary digits.
BinOnes(v) == PopCount(Abs(v))

RECURSIVE Join(_, _)
\* sep.join(parts)
Join(parts, sep) ==
  IF Len(parts) = 0 THEN <<>>
  ELSE IF Len(parts) = 1 THEN parts[1]
  ELSE parts[1] \o sep \o Join(Tail(parts), sep)

\* -------------------------------------------------------------------- state
VARIABLES
  flag_values,  \* cls.flag_values of each class: the list of registered names
  inst,         \* the instances the callers hold: [cls, value], or NoInst
  last,         \* the most recent call and what it returned or raised
  engine        \* the Search object: its session, and its search() calls in flight

vars == <<flag_values, inst, last, engine>>

\* The callers' variables that hold an instance.
InstIds == {"x", "y"}

NoInst == [cls |-> "", value |-> 0]

Present(i) == inst[i].cls # ""

None == [none |-> TRUE, str |-> <<>>]
Str(s) == [none |-> FALSE, str |-> s]

\* The record of a call: op, the instance slot, the arguments, the exception
\* raised ("" when the call returned) and the returned encoding or items.
Call(op, id, cls, name, arg, kwargs, exc, ret, items) ==
  [op |-> op, id |-> id, cls |-> cls, name |-> name, arg |-> arg,
   kwargs |-> kwargs, exc |-> exc, ret |-> ret, items |-> items]

NoArg == PyBool(FALSE)

\* The coroutines of one Search object that can be in flight together.
MaxTasks == 2

Tasks == 1..MaxTasks

\* The api_key a Search is built with.
ApiKey == <<"K", "E", "Y">>

\* Search.__init__ without a session argument and with the default
\* engine_id: self.session is None. The record also keeps the number of
\* ClientSession objects built so far and, for each search() coroutine,
\* whether it is suspended in session.get.
Search__init__ ==
  [session |-> "None",
   api_key |-> ApiKey,
   engine_id |-> <<"0", "0", "1", "3", "3", "0", "1", "c", "6", "2", "c", "b", "2", "2", "8", "c", "5">>,
   created |-> 0,
   pc |-> [t \in Tasks |-> "idle"]]

\* ----------------------------------------------------------- BaseFlags code
\* BaseFlags._has_flag
_has_flag(self, flag) == BitAnd(self.value, flag) = flag

\* _set_flag that sets the bit whatever the toggle.
_set_flag_always(self, flag, toggle) ==
  [self EXCEPT !.value = self.value + flag - BitAnd(self.value, flag)]

\* _set_flag that clears with a subtraction instead of & ~flag.
_set_flag_subtract(self, flag, toggle) ==
  IF toggle
  THEN [self EXCEPT !.value = self.value + flag - BitAnd(self.value, flag)]
  ELSE [self EXCEPT !.value = self.value - flag]

\* _set_flag flipping the bit (value ^= flag) when the toggle is true.
_set_flag_xor(self, flag, toggle) ==
  IF toggle
  THEN [self EXCEPT !.value = self.value + flag - 2 * BitAnd(self.value, flag)]
  ELSE [self EXCEPT !.value = self.value - BitAnd(self.value, flag)]

\* BaseFlags._set_flag
_set_flag(self, flag, toggle) ==
  IF toggle
  THEN [self EXCEPT !.value = self.value + flag - BitAnd(self.value, flag)]
  ELSE [self EXCEPT !.value = self.value - BitAnd(self.value, flag)]

\* _flag_property.__get__ on an instance
flag_get(self, name) == _has_flag(self, original_func(self.cls, name))

\* _flag_property.__set__
flag_set(self, name, value) ==
  _set_flag(self, original_func(self.cls, name), Truthy(value))

\* hasattr(self, name) on an instance whose value slot is set
hasattr(self, name) == MemberKind(self.cls, name) # "missing"

\* __setattr__ without its hasattr guard, on a class without __slots__: a
\* name that is no attribute is stored on the instance and nothing is raised.
setattr_unguarded(self, name, value) ==
  LET kind == MemberKind(self.cls, name)
  IN IF kind = "slot"
       THEN [self |-> [self EXCEPT !.value = IntOf(value)], exc |-> ""]
     ELSE IF kind = "flag"
       THEN [self |-> flag_set(self, name, value), exc |-> ""]
     ELSE IF kind = "class"
       THEN IF value.kind = "class"
            THEN [self |-> [self EXCEPT !.cls = value.c], exc |-> ""]
            ELSE [self |-> self, exc |-> "TypeError"]
     ELSE [self |-> self, exc |-> ""]

\* BaseFlags.__setattr__: [self |-> the instance afterwards, exc |-> raised].
\* A name hasattr does not find raises AttributeError(name). Any other name
\* goes to object.__setattr__: the value slot is stored, a flag goes through
\* _flag_property.__set__, a method or class attribute is read-only on an
\* instance without a dict (__slots__) and a property without a setter
\* refuses, both with AttributeError; __class__ takes a class of the same
\* layout (Language and CountryCode both add the one slot) and refuses
\* anything else with TypeError.
setattr(self, name, value) ==
  LET kind == MemberKind(self.cls, name)
  IN IF kind = "missing" THEN [self |-> self, exc |-> "AttributeError"]
     ELSE IF kind = "slot"
       THEN [self |-> [self EXCEPT !.value = IntOf(value)], exc |-> ""]
     ELSE IF kind = "flag"
       THEN [self |-> flag_set(self, name, value), exc |-> ""]
     ELSE IF kind = "class"
       THEN IF value.kind = "class"
            THEN [self |-> [self EXCEPT !.cls = value.c], exc |-> ""]
            ELSE [self |-> self, exc |-> "TypeError"]
     ELSE [self |-> self, exc |-> "AttributeError"]

\* BaseFlags._from_value
_from_value(cls, value) == [cls |-> cls, value |-> value]

\* all() building one '1' digit too few: int('1' * (N - 1), 2).
all_one_short(cls) == _from_value(cls, 2 ^ (Len(flag_values[cls]) - 1) - 1)

\* BaseFlags.all
all(cls) == _from_value(cls, 2 ^ Len(flag_values[cls]) - 1)

\* BaseFlags.none
none(cls) == _from_value(cls, 0)

\* The __dict__ property of Language / CountryCode: a dict keyed by the names
\* of flag_values (a repeated key keeps its first position), as the sequence
\* of its items.
dict_items(self) ==
  LET fv == flag_values[self.cls]
      first == { k \in 1..Len(fv) : \A j \in 1..(k-1) : fv[j] # fv[k] }
      keys == SelectSeq([k \in 1..Len(fv) |-> IF k \in first THEN fv[k] ELSE ""],
                        LAMBDA n : n # "")
  IN [k \in 1..Len(keys) |-> <<keys[k], flag_get(self, keys[k])>>]

\* BaseFlags.__iter__
__iter__(self) == dict_items(self)

\* _all_flags_enabled comparing with 1 << N, the - 1 forgotten.
_all_flags_enabled_shifted(self) == self.value = 2 ^ Len(flag_values[self.cls])

\* BaseFlags._all_flags_enabled
_all_flags_enabled(self) == self.value = 2 ^ Len(flag_values[self.cls]) - 1

\* to_google_flags choosing the negated list with >= instead of >.
to_google_flags_at_half(self) ==
  LET items == __iter__(self)
      unset == SelectSeq(items, LAMBDA kv : ~kv[2])
      set == SelectSeq(items, LAMBDA kv : kv[2])
      docs(s) == [k \in 1..Len(s) |-> doc(self.cls, s[k][1])]
  IN IF self.value = 0 \/ _all_flags_enabled(self) THEN None
     ELSE IF 2 * BinOnes(self.value) >= Len(flag_values[self.cls])
       THEN Str(<<"-", "(">> \o Join(docs(unset), <<"|">>) \o <<")">>)
     ELSE Str(Join(docs(set), <<"|">>))

\* to_google_flags listing the set flags inside the negated list.
to_google_flags_negating_set(self) ==
  LET items == __iter__(self)
      set == SelectSeq(items, LAMBDA kv : kv[2])
      docs(s) == [k \in 1..Len(s) |-> doc(self.cls, s[k][1])]
  IN IF self.value = 0 \/ _all_flags_enabled(self) THEN None
     ELSE IF 2 * BinOnes(self.value) > Len(flag_values[self.cls])
       THEN Str(<<"-", "(">> \o Join(docs(set), <<"|">>) \o <<")">>)
     ELSE Str(Join(docs(set), <<"|">>))

\* to_google_flags listing the unset flags without the -( ) wrapper.
to_google_flags_unwrapped(self) ==
  LET items == __iter__(self)
      unset == SelectSeq(items, LAMBDA kv : ~kv[2])
      set == SelectSeq(items, LAMBDA kv : kv[2])
      docs(s) == [k \in 1..Len(s) |-> doc(self.cls, s[k][1])]
  IN IF self.value = 0 \/ _all_flags_enabled(self) THEN None
     ELSE IF 2 * BinOnes(self.value) > Len(flag_values[self.cls])
       THEN Str(Join(docs(unset), <<"|">>))
     ELSE Str(Join(docs(set), <<"|">>))

\* to_google_flags with the comparison turned round: the negated list is
\* chosen when at most half of the flags are set.
to_google_flags_inverted(self) ==
  LET items == __iter__(self)
      unset == SelectSeq(items, LAMBDA kv : ~kv[2])
      set == SelectSeq(items, LAMBDA kv : kv[2])
      docs(s) == [k \in 1..Len(s) |-> doc(self.cls, s[k][1])]
  IN IF self.value = 0 \/ _all_flags_enabled(self) THEN None
     ELSE IF 2 * BinOnes(self.value) <= Len(flag_values[self.cls])
       THEN Str(<<"-", "(">> \o Join(docs(unset), <<"|">>) \o <<")">>)
     ELSE Str(Join(docs(set), <<"|">>))

\* to_google_flags joining the tokens with a comma.
to_google_flags_comma(self) ==
  LET items == __iter__(self)
      unset == SelectSeq(items, LAMBDA kv : ~kv[2])
      set == SelectSeq(items, LAMBDA kv : kv[2])
      docs(s) == [k \in 1..Len(s) |-> doc(self.cls, s[k][1])]
  IN IF self.value = 0 \/ _all_flags_enabled(self) THEN None
     ELSE IF 2 * BinOnes(self.value) > Len(flag_values[self.cls])
       THEN Str(<<"-", "(">> \o Join(docs(unset), <<",">>) \o <<")">>)
     ELSE Str(Join(docs(set), <<",">>))

\* BaseFlags.to_google_flags
to_google_flags(self) ==
  LET items == __iter__(self)
      unset == SelectSeq(items, LAMBDA kv : ~kv[2])
      set == SelectSeq(items, LAMBDA kv : kv[2])
      docs(s) == [k \in 1..Len(s) |-> doc(self.cls, s[k][1])]
  IN IF self.value = 0 \/ _all_flags_enabled(self) THEN None
     ELSE IF 2 * BinOnes(self.value) > Len(flag_values[self.cls])
       THEN Str(<<"-", "(">> \o Join(docs(unset), <<"|">>) \o <<")">>)
     ELSE Str(Join(docs(set), <<"|">>))

RECURSIVE from_flags_loop(_, _)
\* the for loop of BaseFlags.from_flags over the keyword arguments left
from_flags_loop(self, flags) ==
  IF Len(flags) = 0 THEN [self |-> self, exc |-> "", name |-> ""]
  ELSE IF ~hasattr(self, flags[1].name)
    THEN [self |-> self, exc |-> "AttributeError", name |-> flags[1].name]
  ELSE LET r == setattr(self, flags[1].name, flags[1].val)
       IN IF r.exc # "" THEN [self |-> r.self, exc |-> r.exc, name |-> flags[1].name]
          ELSE from_flags_loop(r.self, Tail(flags))

\* BaseFlags.from_flags
from_flags(cls, flags) == from_flags_loop(_from_value(cls, 0), flags)

\* ------------------------------------------------------------------ actions
Init ==
  /\ flag_values = [c \in Classes |-> init_subclass(c, <<>>)]
  /\ inst = [i \in InstIds |-> NoInst]
  /\ last = Call("import", "", "", "", NoArg, <<>>, "", None, <<>>)
  /\ engine = Search__init__

\* x = cls.none()
CallNone(i, cls) ==
  /\ inst' = [inst EXCEPT ![i] = none(cls)]
  /\ last' = Call("none", i, cls, "", NoArg, <<>>, "", None, <<>>)
  /\ UNCHANGED <<flag_values, engine>>

\* x = cls.all()
CallAll(i, cls) ==
  /\ inst' = [inst EXCEPT ![i] = all(cls)]
  /\ last' = Call("all", i, cls, "", NoArg, <<>>, "", None, <<>>)
  /\ UNCHANGED <<flag_values, engine>>

\* x = cls.from_flags(**flags); when it raises, the caller gets no instance.
CallFromFlags(i, cls, flags) ==
  LET r == from_flags(cls, flags)
  IN /\ inst' = [inst EXCEPT ![i] = IF r.exc = "" THEN r.self ELSE NoInst]
     /\ last' = Call("from_flags", i, cls, r.name, NoArg, flags, r.exc, None, <<>>)
     /\ UNCHANGED <<flag_values, engine>>

\* x.name = value with the value field kept on the class instead of in the
\* instance's slot: every instance of the class sees the write.
CallSetAttr_on_class(i, name, value) ==
  /\ Present(i)
  /\ LET r == setattr(inst[i], name, value)
     IN /\ inst' = [j \in InstIds |->
                      IF inst[j].cls = inst[i].cls THEN r.self ELSE inst[j]]
        /\ last' = Call("setattr", i, inst[i].cls, name, value, <<>>, r.exc, None, <<>>)
  /\ UNCHANGED <<flag_values, engine>>

\* x.name = value
CallSetAttr(i, name, value) ==
  /\ Present(i)
  /\ LET r == setattr(inst[i], name, value)
     IN /\ inst' = [inst EXCEPT ![i] = r.self]
        /\ last' = Call("setattr", i, inst[i].cls, name, value, <<>>, r.exc, None, <<>>)
  /\ UNCHANGED <<flag_values, engine>>

\* x.to_google_flags()
CallToGoogleFlags(i) ==
  /\ Present(i)
  /\ last' = Call("to_google_flags", i, inst[i].cls, "", NoArg, <<>>, "",
                  to_google_flags(inst[i]), <<>>)
  /\ UNCHANGED <<flag_values, inst, engine>>

\* list(x)
CallIter(i) ==
  /\ Present(i)
  /\ last' = Call("iter", i, inst[i].cls, "", NoArg, <<>>, "", None, __iter__(inst[i]))
  /\ UNCHANGED <<flag_values, inst, engine>>

\* ------------------------------------------------------------------- inputs
AllFlagNames == UNION { FlagNames(c) : c \in Classes }

\* Names a caller of the flag interface writes: flags, and names that are
\* no flag of any class (a typo, a method, a class attribute, a property).
ApiNames == AllFlagNames \cup {"klingon", "to_google_flags", "flag_values", "_all_flags_enabled"}

Bools == {PyBool(TRUE), PyBool(FALSE)}

\* The keyword names a caller of cls.from_flags passes: the flags of cls and
\* a name that is no attribute.
KwNames(cls) == FlagNames(cls) \cup {"klingon"}

RECURSIVE KwSeqs(_, _, _)
\* The keyword-argument lists of at most n arguments over names and vals,
\* the names ascending (so pairwise distinct).
KwSeqs(names, vals, n) ==
  IF n = 0 THEN {<<>>}
  ELSE LET shorter == KwSeqs(names, vals, n - 1)
       IN shorter \cup
          { Append(s, [name |-> nm, val |-> v]) :
              s \in { t \in shorter : Len(t) = n - 1 },
              nm \in names, v \in vals }

Ascending(s) == \A k \in 1..(Len(s) - 1) : NameRank(s[k].name) < NameRank(s[k + 1].name)

ApiKwargs ==
  [c \in Classes |-> { s \in KwSeqs(KwNames(c), Bools, MaxKw) : Ascending(s) }]

\* The caller whose calls the specifications below follow.
Caller == {"x"}

FlagsNone == \E i \in Caller, cls \in Classes : CallNone(i, cls)
FlagsAll == \E i \in Caller, cls \in Classes : CallAll(i, cls)
FlagsFromFlags ==
  \E i \in Caller, cls \in Classes : \E flags \in ApiKwargs[cls] : CallFromFlags(i, cls, flags)
FlagsSetAttr == \E i \in Caller, name \in ApiNames, v \in Bools : CallSetAttr(i, name, v)
FlagsToGoogleFlags == \E i \in Caller : CallToGoogleFlags(i)
FlagsIter == \E i \in Caller : CallIter(i)

Next ==
  \/ FlagsNone
  \/ FlagsAll
  \/ FlagsFromFlags
  \/ FlagsSetAttr
  \/ FlagsToGoogleFlags
  \/ FlagsIter

\* The flag interface: the factories, flag assignment, iteration, encoding.
Spec == Init /\ [][Next]_vars

\* ------------------------------------------------- writes past the flags
\* Integers a caller stores in the value field: negative ones and one wider
\* than any class's flags.
RawInts == {-1, 2 ^ MaxLangFlags}

\* Attribute writes other than flags: the value field, __class__, and
\* members that are neither.
RawWrites ==
  { <<"value", PyInt(n)>> : n \in RawInts }
    \cup { <<"__class__", PyClass(c)>> : c \in Classes }
    \cup { <<"__class__", PyBool(TRUE)>>, <<"__dict__", PyBool(TRUE)>>,
           <<"from_flags", PyBool(TRUE)>> }

\* Keyword arguments of from_flags beyond flags, in any order.
RawKwPairs(cls) ==
  { [name |-> ClassBody[cls][1].name, val |-> PyBool(TRUE)],
    [name |-> "klingon", val |-> PyBool(TRUE)],
    [name |-> "to_google_flags", val |-> PyBool(TRUE)] }
    \cup { [name |-> "value", val |-> PyInt(n)] : n \in RawInts }

RECURSIVE PairSeqs(_, _)
PairSeqs(pairs, n) ==
  IF n = 0 THEN {<<>>}
  ELSE LET shorter == PairSeqs(pairs, n - 1)
       IN shorter \cup
          { Append(s, p) : s \in { t \in shorter : Len(t) = n - 1 }, p \in pairs }

DistinctNames(s) == \A j, k \in 1..Len(s) : j # k => s[j].name # s[k].name

RawKwargs ==
  [c \in Classes |-> { s \in PairSeqs(RawKwPairs(c), MaxKw) : DistinctNames(s) }]

RawFromFlags ==
  \E i \in Caller, cls \in Classes : \E flags \in RawKwargs[cls] : CallFromFlags(i, cls, flags)
RawSetAttr == \E i \in Caller, w \in RawWrites : CallSetAttr(i, w[1], w[2])

NextRaw ==
  \/ FlagsNone
  \/ FlagsAll
  \/ RawFromFlags
  \/ FlagsSetAttr
  \/ RawSetAttr
  \/ FlagsToGoogleFlags
  \/ FlagsIter

\* The flag interface together with the writes BaseFlags.__setattr__ lets
\* through to the value field and to object.__setattr__.
SpecRaw == Init /\ [][NextRaw]_vars

\* --------------------------------------------- two callers, two instances
\* Each caller owns one variable and builds, writes and encodes its own
\* instance; the steps of the two callers interleave in any order.
Owners == InstIds

\* The class both callers instantiate.
TwoClass == "CountryCode"

TwoNone == \E i \in Owners : CallNone(i, TwoClass)
TwoAll == \E i \in Owners : CallAll(i, TwoClass)
TwoSetAttr ==
  \E i \in Owners, name \in FlagNames(TwoClass), v \in Bools : CallSetAttr(i, name, v)
TwoToGoogleFlags == \E i \in Owners : CallToGoogleFlags(i)

NextTwo ==
  \/ TwoNone
  \/ TwoAll
  \/ TwoSetAttr
  \/ TwoToGoogleFlags

SpecTwo == Init /\ [][NextTwo]_vars

\* ------------------------------------------------------ further subclasses
\* Subclasses of one class defined after the module is imported.
MaxSubclasses == 1

\* class Sub(parent), with or without a flag_values list of its own in its
\* body. __init_subclass__ runs for Sub: inspect.getmembers(Sub) finds the
\* flag properties Sub inherits, and each name is appended to
\* Sub.flag_values. With a list of its own that is Sub's list; without one
\* the attribute lookup finds the parent's list, the same object the
\* parent uses.
DefineSubclass(parent, own) ==
  /\ Len(flag_values[parent]) < (1 + MaxSubclasses) * Cardinality(FlagNames(parent))
  /\ flag_values' =
        IF own THEN flag_values
        ELSE [flag_values EXCEPT ![parent] = init_subclass(parent, flag_values[parent])]
  /\ last' = Call("class", "", parent, "", PyBool(own), <<>>, "", None, <<>>)
  /\ UNCHANGED <<inst, engine>>

SubclassDefine == \E parent \in Classes, own \in BOOLEAN : DefineSubclass(parent, own)

NextSubclass ==
  \/ SubclassDefine
  \/ FlagsNone
  \/ FlagsAll
  \/ FlagsSetAttr
  \/ FlagsToGoogleFlags
  \/ FlagsIter

SpecSubclass == Init /\ [][NextSubclass]_vars

\* -------------------------------------------------------------- Search code
\* Search.CSE_URL up to its {} placeholder
CSE_URL == <<"h", "t", "t", "p", "s", ":", "/", "/", "c", "u", "s", "t", "o", "m", "s", "e", "a", "r", "c", "h", ".", "g", "o", "o", "g", "l", "e", "a", "p", "i", "s", ".", "c", "o", "m", "/", "c", "u", "s", "t", "o", "m", "s", "e", "a", "r", "c", "h", "/", "v", "1", "?">>

\* A value of the params dict: an int or a str.
ParamInt(n) == [int |-> TRUE, n |-> n, s |-> <<>>]
ParamStr(s) == [int |-> FALSE, n |-> 0, s |-> s]

Digits == <<"0", "1", "2", "3", "4", "5", "6", "7", "8", "9">>

RECURSIVE str_nat(_)
str_nat(n) ==
  IF n < 10 THEN <<Digits[n + 1]>>
  ELSE str_nat(n \div 10) \o <<Digits[(n % 10) + 1]>>

\* str(v) as urlencode applies it to a value
str(v) ==
  IF ~v.int THEN v.s
  ELSE IF v.n < 0 THEN <<"-">> \o str_nat(0 - v.n)
  ELSE str_nat(v.n)

\* urllib.parse.quote_plus on one character: letters, digits and _ . - ~
\* stay, a space becomes +, anything else is percent-encoded.
quote_char(c) ==
  CASE c = " " -> <<"+">>
    [] c = "|" -> <<"%", "7", "C">>
    [] c = "(" -> <<"%", "2", "8">>
    [] c = ")" -> <<"%", "2", "9">>
    [] OTHER -> <<c>>

RECURSIVE quote_plus(_)
quote_plus(s) ==
  IF Len(s) = 0 THEN <<>> ELSE quote_char(s[1]) \o quote_plus(Tail(s))

\* urllib.parse.urlencode of a dict, given as the sequence of its items
urlencode(params) ==
  Join([k \in 1..Len(params) |->
          quote_plus(params[k][1]) \o <<"=">> \o quote_plus(str(params[k][2]))],
       <<"&">>)

\* The two range checks of Search.search: "" when neither raises.
search_check(max_results, start_index) ==
  IF 1 > max_results /\ max_results > 10 THEN "ValueError"
  ELSE IF 0 > start_index /\ start_index > 100 THEN "ValueError"
  ELSE ""

\* The params of Search.search with lr set whenever a language is passed,
\* str(None) included.
search_params_lr_always(self, query, max_results, start_index, language, safe_search) ==
  LET params ==
        << <<<<"q">>, ParamStr(query)>>,
           <<<<"c", "x">>, ParamStr(self.engine_id)>>,
           <<<<"k", "e", "y">>, ParamStr(self.api_key)>>,
           <<<<"n", "u", "m">>, ParamInt(max_results)>>,
           <<<<"s", "t", "a", "r", "t">>, ParamInt(start_index + 1)>>,
           <<<<"s", "a", "f", "e">>, ParamStr(IF safe_search THEN <<"a", "c", "t", "i", "v", "e">> ELSE <<"o", "f", "f">>)>> >>
  IN IF language # NoInst
     THEN Append(params,
                 <<<<"l", "r">>, ParamStr(IF to_google_flags(language).none
                                  THEN <<"N", "o", "n", "e">>
                                  ELSE to_google_flags(language).str)>>)
     ELSE params

\* The params dict Search.search builds, as the sequence of its items;
\* language is NoInst for None.
search_params(self, query, max_results, start_index, language, safe_search) ==
  LET params ==
        << <<<<"q">>, ParamStr(query)>>,
           <<<<"c", "x">>, ParamStr(self.engine_id)>>,
           <<<<"k", "e", "y">>, ParamStr(self.api_key)>>,
           <<<<"n", "u", "m">>, ParamInt(max_results)>>,
           <<<<"s", "t", "a", "r", "t">>, ParamInt(start_index + 1)>>,
           <<<<"s", "a", "f", "e">>, ParamStr(IF safe_search THEN <<"a", "c", "t", "i", "v", "e">> ELSE <<"o", "f", "f">>)>> >>
  IN IF language # NoInst /\ ~to_google_flags(language).none
     THEN Append(params, <<<<"l", "r">>, ParamStr(to_google_flags(language).str)>>)
     ELSE params

\* What Search.search does with the response of the API, a JSON object
\* parsed into a dict: error is "absent" when the dict has no error key,
\* "{}" for an empty error object, else the status of the error object.
\* A non-empty error object is truthy and error.status is then read as an
\* attribute of a dict, which raises AttributeError; without a truthy error
\* the items key is read, KeyError when it is missing.
search_result(response) ==
  IF response.error \notin {"absent", "{}"}
    THEN [exc |-> "AttributeError", returned |-> FALSE, results |-> 0]
  ELSE IF ~response.has_items
    THEN [exc |-> "KeyError", returned |-> FALSE, results |-> 0]
  ELSE [exc |-> "", returned |-> TRUE, results |-> response.items]

\* await search(...) by coroutine t, up to its suspension in session.get:
\* the range checks, the params, then _search, which builds a
\* ClientSession when self.session is None and calls get on self.session.
\* get_on is the state of the session get is called on ("" when get is not
\* reached); aiohttp refuses a closed session with RuntimeError.
CallSearch(t, query, max_results, start_index, language, safe_search) ==
  /\ engine.pc[t] = "idle"
  /\ LET exc == search_check(max_results, start_index)
         params == search_params(engine, query, max_results, start_index,
                                 language, safe_search)
         session == IF engine.session = "None" THEN "open" ELSE engine.session
         created == IF engine.session = "None" THEN engine.created + 1
                    ELSE engine.created
         call == [op |-> "search", task |-> t, query |-> query,
                  max_results |-> max_results, start_index |-> start_index,
                  language |-> language, safe_search |-> safe_search]
     IN IF exc # ""
        THEN /\ engine' = engine
             /\ last' = call @@ [exc |-> exc, params |-> <<>>, url |-> <<>>,
                                 get_on |-> ""]
        ELSE /\ engine' = [engine EXCEPT !.session = session,
                                         !.created = created,
                                         !.pc[t] = IF session = "closed"
                                                   THEN "idle" ELSE "get"]
             /\ last' = call @@ [exc |-> IF session = "closed"
                                         THEN "RuntimeError" ELSE "",
                                 params |-> params,
                                 url |-> CSE_URL \o urlencode(params),
                                 get_on |-> session]
  /\ UNCHANGED <<flag_values, inst>>

\* Coroutine t resumes with the parsed response and search() finishes.
ReturnSearch(t, response) ==
  /\ engine.pc[t] = "get"
  /\ engine' = [engine EXCEPT !.pc[t] = "idle"]
  /\ last' = [op |-> "search_return", task |-> t, response |-> response]
               @@ search_result(response)
  /\ UNCHANGED <<flag_values, inst>>

\* await close()
CallClose ==
  /\ engine' = [engine EXCEPT !.session = IF engine.session = "None"
                                          THEN "None" ELSE "closed"]
  /\ last' = [op |-> "close", had_session |-> engine.session # "None"]
  /\ UNCHANGED <<flag_values, inst>>

\* ----------------------------------------------------- one caller searching
\* One caller builds a Language, passes it (or None) to search() with
\* arguments inside and outside the documented ranges, and awaits the
\* result before the next call.
Queries == { <<"a", " ", "b">> }

\* (max_results, start_index)
SearchArgs == { <<10, 0>>, <<1, 100>>, <<0, 0>>, <<11, 0>>, <<10, -1>>, <<10, 101>> }

\* Responses of the API: without an error, with an empty error object, and
\* with an error object of either status; with or without items.
Responses ==
  [error : {"absent", "{}", "RESOURCE_EXHAUSTED", "INVALID_ARGUMENT"},
   has_items : {TRUE},
   items : {0, 2}]
    \cup [error : {"absent", "{}", "RESOURCE_EXHAUSTED"},
          has_items : {FALSE},
          items : {0}]

SearchLangNone == CallNone("x", "Language")
SearchLangAll == CallAll("x", "Language")
SearchLangSetAttr ==
  \E name \in FlagNames("Language"), v \in Bools : CallSetAttr("x", name, v)
SearchCall ==
  \E query \in Queries, a \in SearchArgs, language \in {NoInst, inst["x"]},
     safe_search \in BOOLEAN :
    CallSearch(1, query, a[1], a[2], language, safe_search)
SearchReturn == \E response \in Responses : ReturnSearch(1, response)
SearchClose == CallClose

NextSearch ==
  \/ SearchLangNone
  \/ SearchLangAll
  \/ SearchLangSetAttr
  \/ SearchCall
  \/ SearchReturn
  \/ SearchClose

SpecSearch == Init /\ [][NextSearch]_vars

\* ------------------------------------------- coroutines sharing one Search
\* Several coroutines call search() and close() on the one Search object;
\* they interleave at the suspension in session.get.
SessionSearch ==
  \E t \in Tasks, query \in Queries, a \in SearchArgs :
    CallSearch(t, query, a[1], a[2], NoInst, TRUE)
SessionReturn == \E t \in Tasks, response \in Responses : ReturnSearch(t, response)
SessionClose == CallClose

NextSession ==
  \/ SessionSearch
  \/ SessionReturn
  \/ SessionClose

SpecSession == Init /\ [][NextSession]_vars

\* ---------------------------------------------------- reading an encoding
\* What a receiver of the wire string does with it: strip the -( ) wrapper,
\* split on |, look the tokens up in the class's flag table.
Registered(cls) == { flag_values[cls][k] : k \in 1..Len(flag_values[cls]) }

NumFlags(cls) == Len(flag_values[cls])

SetNames(self) == { n \in Registered(self.cls) : flag_get(self, n) }

UnsetNames(self) == Registered(self.cls) \ SetNames(self)

NumSet(self) == Cardinality(SetNames(self))

DocsOf(cls, names) == { doc(cls, n) : n \in names }

Wrapped(s) == Len(s) >= 3 /\ s[1] = "-" /\ s[2] = "(" /\ s[Len(s)] = ")"

Inner(s) == IF Wrapped(s) THEN SubSeq(s, 3, Len(s) - 1) ELSE s

RECURSIVE SplitOn(_, _)
\* s.split(sep) for a one-character sep
SplitOn(s, sep) ==
  IF \A k \in 1..Len(s) : s[k] # sep THEN <<s>>
  ELSE LET k == CHOOSE j \in 1..Len(s) : s[j] = sep /\ \A h \in 1..(j - 1) : s[h] # sep
       IN <<SubSeq(s, 1, k - 1)>> \o SplitOn(SubSeq(s, k + 1, Len(s)), sep)

Tokens(s) == SplitOn(Inner(s), "|")

TokenSet(s) == { Tokens(s)[k] : k \in 1..Len(Tokens(s)) }

\* The flags a wire string names, and the flag set it stands for.
NamedBy(cls, s) == { n \in Registered(cls) : doc(cls, n) \in TokenSet(s) }

Decode(cls, s) == IF Wrapped(s) THEN Registered(cls) \ NamedBy(cls, s) ELSE NamedBy(cls, s)

\* A positive list of exactly the tokens of `names`: no wrapper, no leading
\* minus, no parenthesis.
PositiveListOf(cls, s, names) ==
  /\ ~Wrapped(s)
  /\ Len(s) > 0 /\ s[1] # "-"
  /\ \A k \in 1..Len(s) : s[k] \notin {"(", ")"}
  /\ Len(Tokens(s)) = Cardinality(names)
  /\ TokenSet(s) = DocsOf(cls, names)
  /\ s = Join(Tokens(s), <<"|">>)

\* A negated list -(t1|t2|...) of exactly the tokens of `names`.
NegatedListOf(cls, s, names) ==
  /\ Wrapped(s)
  /\ Len(Tokens(s)) = Cardinality(names)
  /\ TokenSet(s) = DocsOf(cls, names)
  /\ s = <<"-", "(">> \o Join(Tokens(s), <<"|">>) \o <<")">>

\* The last call was x.to_google_flags(); Self is the instance it encoded.
Encoded == last.op = "to_google_flags"

Self == inst[last.id]

FullPattern(cls) == 2 ^ NumFlags(cls) - 1

\* ------------------------------------------------------------------- claims
\* C1: to_google_flags() returns None when the instance's value is 0 and
\* when it equals the full pattern 2^N - 1, N the number of registered
\* flags; none().to_google_flags() and all().to_google_flags() are None.
C1_EmptyAndFullAreOmitted ==
  /\ (Encoded /\ (Self.value = 0 \/ Self.value = FullPattern(Self.cls)))
        => last.ret = None
  /\ \A c \in Classes :
        /\ none(c).value = 0 /\ to_google_flags(none(c)) = None
        /\ all(c).value = FullPattern(c) /\ to_google_flags(all(c)) = None

C1_Witness ==
  /\ Encoded
  /\ Self.value = FullPattern(Self.cls)
  /\ Self.value > 0
  /\ last.ret = None

\* C2: an instance neither empty nor full with more than N/2 flags set is
\* encoded as the negated list: -( then the tokens of exactly the unset
\* flags joined by | then ), with no token of a set flag.
C2_MajorityIsNegated ==
  (Encoded /\ 0 < NumSet(Self) /\ NumSet(Self) < NumFlags(Self.cls)
           /\ 2 * NumSet(Self) > NumFlags(Self.cls))
    => /\ ~last.ret.none
       /\ NegatedListOf(Self.cls, last.ret.str, UnsetNames(Self))
       /\ TokenSet(last.ret.str) \cap DocsOf(Self.cls, SetNames(Self)) = {}

C2_Witness ==
  /\ Encoded
  /\ NumSet(Self) < NumFlags(Self.cls) - 1
  /\ 2 * NumSet(Self) > NumFlags(Self.cls)
  /\ NegatedListOf(Self.cls, last.ret.str, UnsetNames(Self))

\* C3: a non-empty instance with at most N/2 flags set, the exact tie
\* 2 * set = N included, is encoded as the positive list: the tokens of
\* exactly the set flags joined by |, no leading - and no parentheses.
C3_MinorityAndTieArePositive ==
  (Encoded /\ 0 < NumSet(Self) /\ 2 * NumSet(Self) <= NumFlags(Self.cls))
    => /\ ~last.ret.none
       /\ PositiveListOf(Self.cls, last.ret.str, SetNames(Self))

C3_Witness ==
  /\ Encoded
  /\ 2 * NumSet(Self) = NumFlags(Self.cls)
  /\ PositiveListOf(Self.cls, last.ret.str, SetNames(Self))

\* C4 as claimed: for every k with 0 < k <= N/2, exactly k flags set gives a
\* positive list of exactly k tokens, and exactly N-k flags set gives a
\* negated list of exactly k tokens.
C4_Original ==
  Encoded =>
    \A k \in 1..NumFlags(Self.cls) :
      (2 * k <= NumFlags(Self.cls)) =>
        /\ (NumSet(Self) = k) =>
              /\ ~last.ret.none
              /\ ~Wrapped(last.ret.str)
              /\ Len(Tokens(last.ret.str)) = k
        /\ (NumSet(Self) = NumFlags(Self.cls) - k) =>
              /\ ~last.ret.none
              /\ Wrapped(last.ret.str)
              /\ Len(Tokens(last.ret.str)) = k

\* C4 (amended): for every k with 0 < k <= N/2, exactly k flags set gives a
\* positive list of exactly k tokens; exactly N-k flags set gives a negated
\* list of exactly k tokens when k < N/2, and at k = N/2 (N even) the
\* complement has N/2 flags set too and is the positive list of N/2 tokens.
C4_TokenCounts ==
  Encoded =>
    \A k \in 1..NumFlags(Self.cls) :
      (2 * k <= NumFlags(Self.cls)) =>
        /\ (NumSet(Self) = k) =>
              /\ ~last.ret.none
              /\ ~Wrapped(last.ret.str)
              /\ Len(Tokens(last.ret.str)) = k
        /\ (2 * k < NumFlags(Self.cls) /\ NumSet(Self) = NumFlags(Self.cls) - k) =>
              /\ ~last.ret.none
              /\ Wrapped(last.ret.str)
              /\ Len(Tokens(last.ret.str)) = k

C4_Witness ==
  /\ Encoded
  /\ NumSet(Self) = NumFlags(Self.cls) - 2
  /\ 2 * 2 < NumFlags(Self.cls)
  /\ Wrapped(last.ret.str)
  /\ Len(Tokens(last.ret.str)) = 2

\* C5: for every non-empty, non-full flag set, decoding the string that
\* to_google_flags() produced (strip the -( ) wrapper if present, split on
\* |, map each token back to its flag, complement when wrapped) gives back
\* exactly the set flags; the tokens of a class are pairwise distinct.
C5_RoundTrip ==
  /\ \A c \in Classes : \A n, m \in Registered(c) : n # m => doc(c, n) # doc(c, m)
  /\ (Encoded /\ 0 < NumSet(Self) /\ NumSet(Self) < NumFlags(Self.cls))
        => /\ ~last.ret.none
           /\ TokenSet(last.ret.str) \subseteq DocsOf(Self.cls, Registered(Self.cls))
           /\ Decode(Self.cls, last.ret.str) = SetNames(Self)

C5_Witness ==
  /\ Encoded
  /\ Wrapped(last.ret.str)
  /\ Cardinality(SetNames(Self)) >= 3
  /\ Decode(Self.cls, last.ret.str) = SetNames(Self)

\* C6: from_flags called with registered flag names mapped to booleans
\* returns an instance that reads each registered flag true exactly when
\* that name was passed with a true value.
C6_FromFlagsReadsBack ==
  (last.op = "from_flags"
     /\ \A k \in 1..Len(last.kwargs) : last.kwargs[k].name \in Registered(last.cls))
    => /\ last.exc = ""
       /\ Present(last.id)
       /\ Self.cls = last.cls
       /\ \A n \in Registered(last.cls) :
            flag_get(Self, n) =
              (\E k \in 1..Len(last.kwargs) :
                 last.kwargs[k].name = n /\ Truthy(last.kwargs[k].val))

C6_Witness ==
  /\ last.op = "from_flags"
  /\ Len(last.kwargs) = 2
  /\ \A k \in 1..2 : last.kwargs[k].name \in Registered(last.cls)
  /\ Truthy(last.kwargs[1].val) /\ ~Truthy(last.kwargs[2].val)
  /\ flag_get(Self, last.kwargs[1].name)
  /\ ~flag_get(Self, last.kwargs[2].name)

\* The flag of cls whose token is t.
FlagOfToken(cls, t) == CHOOSE n \in Registered(cls) : doc(cls, n) = t

\* C7 as claimed: iterating yields one (name, bool) pair per registered
\* flag in descriptor order, the i-th descriptor being the flag declared
\* i-th and owning bit i; so the tokens of an encoding appear in increasing
\* bit order.
C7_Original ==
  /\ (last.op = "iter") =>
        /\ Len(last.items) = NumFlags(last.cls)
        /\ \A k \in 1..Len(last.items) :
              /\ last.items[k][1] = Declared(last.cls)[k].name
              /\ original_func(last.cls, last.items[k][1]) = 2 ^ (k - 1)
              /\ last.items[k][2] = flag_get(Self, last.items[k][1])
  /\ (Encoded /\ ~last.ret.none) =>
        \A j, k \in 1..Len(Tokens(last.ret.str)) :
          (j < k) =>
            original_func(Self.cls, FlagOfToken(Self.cls, Tokens(last.ret.str)[j]))
              < original_func(Self.cls, FlagOfToken(Self.cls, Tokens(last.ret.str)[k]))

\* C7 (amended): iterating yields exactly one (name, bool) pair per
\* registered flag, the bool being what the flag reads, in the order of
\* flag_values, which is ascending order of the flag names (the order of
\* inspect.getmembers) and not the order of declaration or of bit
\* positions; so the tokens of an encoding appear in ascending order of
\* their flags' names.
C7_IterationInNameOrder ==
  /\ (last.op = "iter") =>
        /\ Len(last.items) = NumFlags(last.cls)
        /\ { last.items[k][1] : k \in 1..Len(last.items) } = FlagNames(last.cls)
        /\ Cardinality(FlagNames(last.cls)) = Len(last.items)
        /\ \A k \in 1..Len(last.items) :
              /\ last.items[k][1] = flag_values[last.cls][k]
              /\ last.items[k][2] = flag_get(Self, last.items[k][1])
        /\ \A j, k \in 1..Len(last.items) :
              (j < k) => NameRank(last.items[j][1]) < NameRank(last.items[k][1])
  /\ (Encoded /\ ~last.ret.none) =>
        \A j, k \in 1..Len(Tokens(last.ret.str)) :
          (j < k) =>
            NameRank(FlagOfToken(Self.cls, Tokens(last.ret.str)[j]))
              < NameRank(FlagOfToken(Self.cls, Tokens(last.ret.str)[k]))

C7_Witness ==
  /\ last.op = "iter"
  /\ Len(last.items) = NumFlags(last.cls)
  /\ \E k \in 1..Len(last.items) :
        /\ last.items[k][1] # Declared(last.cls)[k].name
        /\ last.items[k][2]
  /\ \E k \in 1..Len(last.items) : ~last.items[k][2]

\* C8: from_flags raises the unknown-flag AttributeError whenever a keyword
\* name is no registered flag of the class, names of other attributes such
\* as value included, and then returns no instance.
C8_UnknownKeywordRaises ==
  (last.op = "from_flags"
     /\ \E k \in 1..Len(last.kwargs) : last.kwargs[k].name \notin Registered(last.cls))
    => /\ last.exc = "AttributeError"
       /\ ~Present(last.id)

\* The last call was x.name = v with a name that is neither the value field
\* nor a flag of x's class.
WroteOther == last.op = "setattr" /\ MemberKind(last.cls, last.name) \notin {"slot", "flag"}

\* C9 as claimed: assigning to a name that is neither value nor a registered
\* flag of the instance's class raises AttributeError and leaves the
\* instance as it was.
C9_Original ==
  [][WroteOther' => (last'.exc = "AttributeError" /\ inst' = inst)]_vars

\* C9 (amended): assigning to a name that is neither value, nor a
\* registered flag of the instance's class, nor __class__ raises
\* AttributeError and leaves the instance as it was; assigning __class__
\* leaves the value as it was and either raises TypeError (the new value is
\* no class) or rebinds the instance to the class given.
C9_OtherWritesRaise ==
  [][WroteOther' =>
        /\ (last'.name # "__class__") => (last'.exc = "AttributeError" /\ inst' = inst)
        /\ (last'.name = "__class__") =>
              /\ inst'[last'.id].value = inst[last'.id].value
              /\ \/ last'.exc = "TypeError" /\ inst' = inst
                 \/ /\ last'.exc = ""
                    /\ last'.arg.kind = "class"
                    /\ inst'[last'.id].cls = last'.arg.c]_vars

C9_Witness ==
  /\ last.op = "setattr"
  /\ last.name = "to_google_flags"
  /\ last.exc = "AttributeError"
  /\ Self.value # 0

InRange(self) == 0 <= self.value /\ self.value <= FullPattern(self.cls)

\* C10 as claimed: after none(), all() or from_flags() and any sequence of
\* flag assignments and assignments to the value field, 0 <= value <= 2^N - 1.
C10_Original == \A i \in InstIds : Present(i) => InRange(inst[i])

\* C10 (amended): none(), all() and from_flags() over registered flag names
\* return an instance with 0 <= value <= 2^N - 1, and a flag assignment
\* maps a value in that range to a value in that range. An assignment to the value
\* field (x.value = n, or value=n passed to from_flags) stores n unchecked,
\* and afterwards the value can be negative or wider than N bits.
C10_FlagWritesKeepRange ==
  [][/\ (last'.op \in {"none", "all"}) => InRange(inst'[last'.id])
     /\ (/\ last'.op = "from_flags"
         /\ last'.exc = ""
         /\ \A k \in 1..Len(last'.kwargs) : last'.kwargs[k].name \in Registered(last'.cls))
           => InRange(inst'[last'.id])
     /\ (/\ last'.op = "setattr"
         /\ MemberKind(last'.cls, last'.name) = "flag"
         /\ InRange(inst[last'.id]))
           => InRange(inst'[last'.id])]_vars

C10_Witness ==
  /\ last.op = "setattr"
  /\ MemberKind(last.cls, last.name) = "flag"
  /\ ~Truthy(last.arg)
  /\ last.exc = ""
  /\ InRange(Self)
  /\ 0 < NumSet(Self) /\ NumSet(Self) < NumFlags(Self.cls)

\* C11: none() has value 0 and reads every registered flag false; all() has
\* value 2^N - 1 and reads every registered flag true, the registered flags
\* owning exactly the bits 0..N-1; _all_flags_enabled is true exactly when
\* every registered flag reads true.
C11_NoneAllAndAllEnabled ==
  /\ \A c \in Classes :
        { original_func(c, n) : n \in Registered(c) }
          = { 2 ^ k : k \in 0..(NumFlags(c) - 1) }
  /\ (last.op = "none") =>
        /\ Self.value = 0
        /\ \A n \in Registered(last.cls) : ~flag_get(Self, n)
        /\ ~_all_flags_enabled(Self)
  /\ (last.op = "all") =>
        /\ Self.value = 2 ^ NumFlags(last.cls) - 1
        /\ \A n \in Registered(last.cls) : flag_get(Self, n)
        /\ _all_flags_enabled(Self)
  /\ \A i \in InstIds :
        Present(i) =>
          (_all_flags_enabled(inst[i])
             <=> \A n \in Registered(inst[i].cls) : flag_get(inst[i], n))

C11_Witness ==
  /\ last.op = "all"
  /\ Self.value = 2 ^ NumFlags(last.cls) - 1
  /\ NumSet(Self) = NumFlags(last.cls)
  /\ NumFlags(last.cls) >= 4

\* C13: a Language with only english and french set encodes to exactly
\* lang_en|lang_fr; a Language with every flag set except english encodes
\* to exactly -(lang_en).
C13_EnglishFrench ==
  /\ {"english", "french"} \subseteq Registered("Language")
  /\ (Encoded /\ Self.cls = "Language") =>
        /\ (SetNames(Self) = {"english", "french"})
              => last.ret = Str(<<"l", "a", "n", "g", "_", "e", "n", "|", "l", "a", "n", "g", "_", "f", "r">>)
        /\ (UnsetNames(Self) = {"english"})
              => last.ret = Str(<<"-", "(", "l", "a", "n", "g", "_", "e", "n", ")">>)

C13_Witness ==
  /\ Encoded
  /\ Self.cls = "Language"
  /\ UnsetNames(Self) = {"english"}
  /\ last.ret = Str(<<"-", "(", "l", "a", "n", "g", "_", "e", "n", ")">>)

\* C16: assigning a boolean b to a registered flag f of an instance makes
\* f read b, leaves every other flag of the instance as it read before, and
\* assigning the same b to f again does not change the instance.
C16_FlagWriteFrame ==
  [][(last'.op = "setattr" /\ MemberKind(last'.cls, last'.name) = "flag") =>
        /\ last'.exc = ""
        /\ inst'[last'.id].cls = inst[last'.id].cls
        /\ flag_get(inst'[last'.id], last'.name) = Truthy(last'.arg)
        /\ \A n \in Registered(last'.cls) \ {last'.name} :
              flag_get(inst'[last'.id], n) = flag_get(inst[last'.id], n)
        /\ setattr(inst'[last'.id], last'.name, last'.arg)
              = [self |-> inst'[last'.id], exc |-> ""]]_vars

C16_Witness ==
  /\ last.op = "setattr"
  /\ MemberKind(last.cls, last.name) = "flag"
  /\ Truthy(last.arg)
  /\ flag_get(Self, last.name)
  /\ NumSet(Self) >= 2
  /\ NumSet(Self) < NumFlags(Self.cls)

\* The tokens of the flags of self that read want, in iteration order.
DocsReading(self, want) ==
  LET s == SelectSeq(__iter__(self), LAMBDA kv : kv[2] = want)
  IN [k \in 1..Len(s) |-> doc(self.cls, s[k][1])]

\* The two serializations of a partial selection.
PositiveForm(self) == Join(DocsReading(self, TRUE), <<"|">>)

NegatedForm(self) == <<"-", "(">> \o Join(DocsReading(self, FALSE), <<"|">>) \o <<")">>

Partial(self) == 0 < NumSet(self) /\ NumSet(self) < NumFlags(self.cls)

\* C18 as claimed: for every partial selection the string returned is never
\* longer than the other serialization of the same selection.
C18_Original ==
  (Encoded /\ Partial(Self)) =>
    /\ ~last.ret.none
    /\ Len(last.ret.str) <= Len(PositiveForm(Self))
    /\ Len(last.ret.str) <= Len(NegatedForm(Self))

\* C18 (amended): for every partial selection the string returned is the
\* one of the two serializations that lists fewer tokens, the positive one
\* when both list the same number; it can be the longer string of the two.
C18_FewerTokens ==
  (Encoded /\ Partial(Self)) =>
    /\ ~last.ret.none
    /\ last.ret.str \in {PositiveForm(Self), NegatedForm(Self)}
    /\ Len(Tokens(last.ret.str)) <= NumSet(Self)
    /\ Len(Tokens(last.ret.str)) <= NumFlags(Self.cls) - NumSet(Self)
    /\ (2 * NumSet(Self) = NumFlags(Self.cls)) => last.ret.str = PositiveForm(Self)

C18_Witness ==
  /\ Encoded
  /\ Partial(Self)
  /\ last.ret.str = NegatedForm(Self)
  /\ Len(Tokens(last.ret.str)) < NumSet(Self)
  /\ Len(last.ret.str) > Len(PositiveForm(Self))

\* C17: under any interleaving of the steps of two callers that each own
\* one instance of the same class, built by the same factories, a flag
\* assignment by one caller leaves the other caller's instance
\* with the value, the flag readings and the encoding it had, and leaves
\* the flag registries as they were.
C17_WritesStayInTheInstance ==
  [][(last'.op = "setattr") =>
        /\ flag_values' = flag_values
        /\ \A j \in InstIds \ {last'.id} :
              /\ inst'[j] = inst[j]
              /\ Present(j) =>
                    /\ __iter__(inst'[j]) = __iter__(inst[j])
                    /\ to_google_flags(inst'[j]) = to_google_flags(inst[j])]_vars

C17_Witness ==
  /\ last.op = "setattr"
  /\ last.id = "x"
  /\ Present("y")
  /\ inst["y"].cls = inst["x"].cls
  /\ inst["y"].value # inst["x"].value
  /\ inst["y"].value # 0
  /\ ~flag_get(inst["y"], last.name)
  /\ flag_get(inst["x"], last.name)

\* C19: the flag_values list of each class holds every declared flag name
\* exactly once and is the list the class definition produced, whatever
\* subclasses are defined afterwards; so N, the all() pattern and the
\* encoding threshold N/2 of the class stay what they were.
C19_RegistryIsFixed ==
  \A c \in Classes :
    /\ Registered(c) = FlagNames(c)
    /\ Len(flag_values[c]) = Cardinality(FlagNames(c))
    /\ flag_values[c] = init_subclass(c, <<>>)
    /\ all(c).value = 2 ^ Cardinality(FlagNames(c)) - 1

\* What the server reads from a request URL: the part after the ?, split on
\* & and =, each side unquoted.
percent_decoded(a, b) ==
  CASE a = "7" /\ b = "C" -> <<"|">>
    [] a = "2" /\ b = "8" -> <<"(">>
    [] a = "2" /\ b = "9" -> <<")">>
    [] OTHER -> <<"%", a, b>>

RECURSIVE unquote_plus(_)
unquote_plus(s) ==
  IF Len(s) = 0 THEN <<>>
  ELSE IF s[1] = "+" THEN <<" ">> \o unquote_plus(Tail(s))
  ELSE IF s[1] = "%" /\ Len(s) >= 3
    THEN percent_decoded(s[2], s[3]) \o unquote_plus(SubSeq(s, 4, Len(s)))
  ELSE <<s[1]>> \o unquote_plus(Tail(s))

UrlPairs(url) ==
  LET parts == SplitOn(SubSeq(url, Len(CSE_URL) + 1, Len(url)), "&")
  IN [k \in 1..Len(parts) |->
        LET kv == SplitOn(parts[k], "=")
        IN <<unquote_plus(kv[1]), unquote_plus(kv[Len(kv)])>>]

LrKey == <<"l", "r">>

\* The last call was a search() that got past its range checks.
Requested == last.op = "search" /\ last.exc # "ValueError"

\* The encoding of the language passed to the last search(), None when no
\* language was passed.
PassedEncoding ==
  IF last.language = NoInst THEN None ELSE to_google_flags(last.language)

\* C12: search() puts lr into the params and into the query string of the
\* URL it requests exactly when a language is passed whose to_google_flags()
\* is not None, once, with that encoding as its value; otherwise there is
\* no lr parameter at all, and lr is never sent empty or as None.
C12_LrExactlyWhenEncoded ==
  Requested =>
    LET sent == UrlPairs(last.url)
        lrs == { k \in 1..Len(sent) : sent[k][1] = LrKey }
    IN /\ Len(sent) = Len(last.params)
       /\ (\E k \in 1..Len(last.params) : last.params[k][1] = LrKey)
             <=> ~PassedEncoding.none
       /\ PassedEncoding.none => lrs = {}
       /\ ~PassedEncoding.none =>
             /\ Cardinality(lrs) = 1
             /\ \A k \in lrs : sent[k][2] = PassedEncoding.str
       /\ \A k \in lrs : sent[k][2] \notin {<<>>, <<"N", "o", "n", "e">>}

C12_Witness ==
  /\ Requested
  /\ last.language # NoInst
  /\ Wrapped(PassedEncoding.str)
  /\ Len(Tokens(PassedEncoding.str)) = 2
  /\ \E k \in 1..Len(UrlPairs(last.url)) :
        UrlPairs(last.url)[k] = <<LrKey, PassedEncoding.str>>

\* C14: search() raises ValueError, and calls get on no session, whenever
\* max_results is lower than 1 or higher than 10 or start_index is less
\* than 0 or higher than 100.
C14_RangeChecked ==
  (/\ last.op = "search"
   /\ \/ last.max_results < 1
      \/ last.max_results > 10
      \/ last.start_index < 0
      \/ last.start_index > 100)
    => /\ last.exc = "ValueError"
       /\ last.get_on = ""
       /\ engine.pc[last.task] = "idle"

\* C15: when the response has an error object, search() raises
\* QuotaExceededError if the error's status is RESOURCE_EXHAUSTED and
\* SearchError otherwise; it returns a result list only when the response
\* has no error.
C15_ErrorsClassified ==
  (last.op = "search_return") =>
    /\ (last.response.error = "RESOURCE_EXHAUSTED") => last.exc = "QuotaExceededError"
    /\ (last.response.error \notin {"absent", "RESOURCE_EXHAUSTED"})
          => last.exc = "SearchError"
    /\ last.returned => last.response.error = "absent"

\* Of C20, what holds of the code: at most one ClientSession is ever built,
\* and close() closes the session there is and does nothing without one.
OneSessionAtMost ==
  /\ engine.created <= 1
  /\ (engine.session = "None") <=> (engine.created = 0)
  /\ (last.op = "close") =>
        engine.session = (IF last.had_session THEN "closed" ELSE "None")

\* C20: for a Search built without a session, over every interleaving of
\* search() and close() calls at most one client session is built, close()
\* closes the current session if there is one and does nothing otherwise,
\* and get is never called on a session that was closed before.
C20_OneSessionNeverUsedClosed ==
  /\ OneSessionAtMost
  /\ (last.op = "search") => last.get_on # "closed"

====
